---- MODULE Spec2Model ----
(***************************************************************************)
(* spotfm: the entity mirror (Artist / Album / Track / Playlist) with its  *)
(* three tiers (pickle object cache, SQLite tables, remote catalog API),   *)
(* Client.update_playlists and discover_from_playlists.                    *)
(*                                                                         *)
(* The program is sequential: every action below is one whole call of a    *)
(* public operation.  The operations call each other, so each is written   *)
(* as an operator on a "world" record w = [cache, db, calls, synced] that  *)
(* returns the new world and the returned object; an action applies the    *)
(* operator to the current state.                                          *)
(*                                                                         *)
(* Abstractions: an entity's name (and every other API-provided scalar) is *)
(* the generation number of the API data it was read from (0 is None);     *)
(* lists of artists are kept as sets of artist ids.                        *)
(***************************************************************************)
EXTENDS Integers, Sequences, FiniteSets, TLC

VARIABLES cache, db, api, last, hist, sqlite

vars == <<cache, db, api, last, hist, sqlite>>

(***************************************************************************)
(* Bounds and the remote catalog the model runs against.                   *)
(***************************************************************************)
MaxGen == 2         \* generations of API data (the catalog is renamed MaxGen-1 times)
MaxItems == 2       \* longest playlist on the remote side
MaxDate == 2        \* added_at values are 1..MaxDate

\* constants.BATCH_SIZE; the literal 50 of Artist.get_artists; and
\* ALBUM_BATCH_SIZE, which album.py imports from constants.py and
\* constants.py does not define: the tests give "20 per batch"
BATCH_SIZE == 50
ARTIST_BATCH_SIZE == 50
ALBUM_BATCH_SIZE == 20

Tracks == {"t1", "t2"}
Albums == {"a1", "a2"}
Artists == {"r1", "r2"}
Playlists == {"p1", "p2", "pd"}

User == "me"

\* track -> album id, track -> artists, album -> artists, as the API reports them
TrackAlbum == [t \in Tracks |-> IF t = "t1" THEN "a1" ELSE "a2"]
TrackArtists == [t \in Tracks |-> IF t = "t1" THEN {"r1"} ELSE {"r2"}]
AlbumArtists == [a \in Albums |-> IF a = "a1" THEN {"r1"} ELSE {"r1", "r2"}]
\* playlist -> owner id; current_user_playlists lists them in PlaylistOrder
PlaylistOwner == [p \in Playlists |-> IF p = "p2" THEN "other" ELSE User]
PlaylistOrder == <<"p1", "p2", "pd">>

(***************************************************************************)
(* Helpers: finite maps (tables keyed by primary key, cache directories).  *)
(***************************************************************************)
EmptyMap == [x \in {} |-> 0]

Put(f, k, v) == [x \in DOMAIN f \cup {k} |-> IF x = k THEN v ELSE f[x]]

Without(f, ks) == [x \in DOMAIN f \ ks |-> f[x]]

Range(s) == {s[i] : i \in DOMAIN s}

RECURSIVE SetToSeq(_)
SetToSeq(S) ==
    IF S = {} THEN <<>>
    ELSE LET x == CHOOSE y \in S : TRUE IN <<x>> \o SetToSeq(S \ {x})

\* duplicates are kept
NotUnique(s) == s

\* list(dict.fromkeys(ids)): duplicates removed, first occurrences kept in order
RECURSIVE Unique(_)
Unique(s) ==
    IF s = <<>> THEN <<>>
    ELSE LET r == Unique(SubSeq(s, 1, Len(s) - 1))
         IN IF s[Len(s)] \in Range(r) THEN r ELSE Append(r, s[Len(s)])

\* one request for everything, whatever the batch size
OneBatch(s, n) == IF s = <<>> THEN <<>> ELSE <<s>>

\* [s[i : i + n] for i in range(0, len(s), n)]
RECURSIVE Batches(_, _)
Batches(s, n) ==
    IF s = <<>> THEN <<>>
    ELSE IF Len(s) <= n THEN <<s>>
    ELSE <<SubSeq(s, 1, n)>> \o Batches(SubSeq(s, n + 1, Len(s)), n)

\* INSERT OR IGNORE into a table keyed by k
InsertOrIgnore(f, k, v) == IF k \in DOMAIN f THEN f ELSE Put(f, k, v)

\* one request to the remote API, appended to the operation's call log
Call(w, c) == [w EXCEPT !.calls = Append(@, c)]

\* utils.cache_object: the pickle file <kind>/<id>.pickle is (over)written
CacheObject(w, kind, o) == [w EXCEPT !.cache[kind] = Put(@, o.id, o)]

\* utils.retrieve_object_from_cache returns an object iff the file exists
InCache(w, kind, id) == id \in DOMAIN w.cache[kind]

(***************************************************************************)
(* Artist                                                                  *)
(***************************************************************************)
BlankArtist(id) == [id |-> id, name |-> 0]

ArtistUpdateFromDb(w, id) ==
    IF id \in DOMAIN w.db.artists
    THEN [found |-> TRUE, obj |-> [id |-> id, name |-> w.db.artists[id].name]]
    ELSE [found |-> FALSE, obj |-> BlankArtist(id)]

ArtistUpdateFromApi(w, id) ==
    [w |-> Call(w, <<"artist", id>>), obj |-> [id |-> id, name |-> api.gen]]

ArtistSyncToDb(w, o) ==
    [w EXCEPT !.db.artists = InsertOrIgnore(@, o.id, [name |-> o.name])]

\* get_artist after update_from_api: cache_object, then sync_to_db if asked
ArtistFetched(a, sync) ==
    [w |-> IF sync THEN ArtistSyncToDb(CacheObject(a.w, "artist", a.obj), a.obj)
           ELSE CacheObject(a.w, "artist", a.obj),
     ret |-> a.obj, tiers |-> <<"cache", "db", "api">>]

\* get_artist after update_from_db answered d
ArtistAfterDb(w, d, id, refresh, sync) ==
    IF ~d.found \/ refresh
    THEN ArtistFetched(ArtistUpdateFromApi(w, id), sync)
    ELSE [w |-> w, ret |-> d.obj, tiers |-> <<"cache", "db">>]

\* a get_artist that returns the cached object even when refresh is set
GetArtistCached(w, id, client, refresh, sync) ==
    IF InCache(w, "artist", id)
    THEN [w |-> w, ret |-> w.cache.artist[id], tiers |-> <<"cache">>]
    ELSE ArtistAfterDb(w, ArtistUpdateFromDb(w, id), id, refresh, sync)

GetArtist(w, id, client, refresh, sync) ==
    IF InCache(w, "artist", id) /\ (~client \/ ~refresh)
    THEN [w |-> w, ret |-> w.cache.artist[id], tiers |-> <<"cache">>]
    ELSE IF ~client
    THEN [w |-> w, ret |-> BlankArtist(id), tiers |-> <<"cache">>]
    ELSE ArtistAfterDb(w, ArtistUpdateFromDb(w, id), id, refresh, sync)

\* [Artist.get_artist(id, client) for id in ids]: the world after the calls
RECURSIVE GetArtistEach(_, _, _)
GetArtistEach(w, ids, client) ==
    IF ids = <<>> THEN w
    ELSE GetArtistEach(GetArtist(w, Head(ids), client, FALSE, TRUE).w, Tail(ids), client)

(***************************************************************************)
(* Album                                                                   *)
(***************************************************************************)
BlankAlbum(id) == [id |-> id, name |-> 0, artists_id |-> {}, artists |-> {}]

AlbumArtistRows(w, id) == {r \in Artists : <<id, r>> \in w.db.albums_artists}

AlbumUpdateFromDb(w, id, client) ==
    IF id \notin DOMAIN w.db.albums
    THEN [w |-> w, found |-> FALSE, obj |-> BlankAlbum(id)]
    ELSE [w |-> GetArtistEach(w, SetToSeq(AlbumArtistRows(w, id)), client),
          found |-> TRUE,
          obj |-> [id |-> id, name |-> w.db.albums[id].name,
                   artists_id |-> AlbumArtistRows(w, id),
                   artists |-> AlbumArtistRows(w, id)]]

AlbumUpdateFromApi(w, id, client) ==
    [w |-> GetArtistEach(Call(w, <<"album", id>>), SetToSeq(AlbumArtists[id]), client),
     obj |-> [id |-> id, name |-> api.gen,
              artists_id |-> AlbumArtists[id], artists |-> AlbumArtists[id]]]

AlbumSyncToDb(w, o) ==
    [w EXCEPT !.db.albums = InsertOrIgnore(@, o.id, [name |-> o.name]),
              !.db.albums_artists = @ \cup {<<o.id, r>> : r \in o.artists}]

\* get_album after update_from_api: cache_object, then sync_to_db if asked
AlbumFetched(a, sync) ==
    [w |-> IF sync THEN AlbumSyncToDb(CacheObject(a.w, "album", a.obj), a.obj)
           ELSE CacheObject(a.w, "album", a.obj),
     ret |-> a.obj, tiers |-> <<"cache", "db", "api">>]

\* get_album after update_from_db answered d
AlbumAfterDb(d, id, client, refresh, sync) ==
    IF ~d.found \/ refresh
    THEN AlbumFetched(AlbumUpdateFromApi(d.w, id, client), sync)
    ELSE [w |-> d.w, ret |-> d.obj, tiers |-> <<"cache", "db">>]

GetAlbum(w, id, client, refresh, sync) ==
    IF InCache(w, "album", id) /\ (~client \/ ~refresh)
    THEN [w |-> w, ret |-> w.cache.album[id], tiers |-> <<"cache">>]
    ELSE IF ~client
    THEN [w |-> w, ret |-> BlankAlbum(id), tiers |-> <<"cache">>]
    ELSE AlbumAfterDb(AlbumUpdateFromDb(w, id, client), id, client, refresh, sync)

(***************************************************************************)
(* Track                                                                   *)
(***************************************************************************)
\* Track(id): artists is None until the track is loaded (loaded = FALSE)
BlankTrack(id) ==
    [id |-> id, name |-> 0, album_id |-> "None", album |-> 0, artists |-> {}, loaded |-> FALSE]

TrackAlbumRows(w, id) == {a \in Albums : <<a, id>> \in w.db.albums_tracks}

TrackArtistRows(w, id) == {r \in Artists : <<id, r>> \in w.db.tracks_artists}

\* the rest of update_from_db / update_from_api once Album.get_album
\* answered ga: the artists are fetched one by one
TrackLoaded(ga, id, name, album_id, artists_id, client) ==
    [w |-> GetArtistEach(ga.w, SetToSeq(artists_id), client),
     found |-> TRUE,
     obj |-> [id |-> id, name |-> name, album_id |-> album_id, album |-> ga.ret.name,
              artists |-> artists_id, loaded |-> TRUE]]

\* The SELECT on tracks assigns the name only "if result"; the first place
\* that reports "not found" is the albums_tracks lookup.
TrackUpdateFromDb(w, id, client) ==
    IF TrackAlbumRows(w, id) = {}
    THEN [w |-> w, found |-> FALSE, obj |-> BlankTrack(id)]
    ELSE TrackLoaded(GetAlbum(w, CHOOSE a \in TrackAlbumRows(w, id) : TRUE, client, FALSE, TRUE),
                     id,
                     IF id \in DOMAIN w.db.tracks THEN w.db.tracks[id].name ELSE 0,
                     CHOOSE a \in TrackAlbumRows(w, id) : TRUE,
                     TrackArtistRows(w, id), client)

TrackUpdateFromApi(w, id, client) ==
    TrackLoaded(GetAlbum(Call(w, <<"track", id>>), TrackAlbum[id], client, FALSE, TRUE),
                id, api.gen, TrackAlbum[id], TrackArtists[id], client)

\* INSERT OR REPLACE INTO tracks, INSERT OR IGNORE INTO albums_tracks and
\* tracks_artists; iterating artists = None raises before any query runs.
TrackSyncToDb(w, o) ==
    IF ~o.loaded THEN w
    ELSE [w EXCEPT !.db.tracks = Put(@, o.id, [name |-> o.name]),
                   !.db.albums_tracks = @ \cup {<<o.album_id, o.id>>},
                   !.db.tracks_artists = @ \cup {<<o.id, r>> : r \in o.artists}]

\* get_track after update_from_api: cache_object, then sync_to_db if asked
TrackFetched(a, sync) ==
    [w |-> IF sync THEN TrackSyncToDb(CacheObject(a.w, "track", a.obj), a.obj)
           ELSE CacheObject(a.w, "track", a.obj),
     ret |-> a.obj, tiers |-> <<"cache", "db", "api">>]

\* a get_track that goes to the API whatever the database answered
TrackAlwaysFetched(d, id, client, refresh, sync) ==
    TrackFetched(TrackUpdateFromApi(d.w, id, client), sync)

\* get_track after update_from_db answered d
TrackAfterDb(d, id, client, refresh, sync) ==
    IF ~d.found \/ refresh
    THEN TrackFetched(TrackUpdateFromApi(d.w, id, client), sync)
    ELSE [w |-> d.w, ret |-> d.obj, tiers |-> <<"cache", "db">>]

GetTrack(w, id, client, refresh, sync) ==
    IF InCache(w, "track", id) /\ (~client \/ ~refresh)
    THEN [w |-> w, ret |-> w.cache.track[id], tiers |-> <<"cache">>]
    ELSE IF ~client
    THEN [w |-> w, ret |-> BlankTrack(id), tiers |-> <<"cache">>]
    ELSE TrackAfterDb(TrackUpdateFromDb(w, id, client), id, client, refresh, sync)

(***************************************************************************)
(* Batch getters.  env is what the remote side does during one operation:  *)
(* env.nullTracks / nullAlbums / nullArtists are the ids for which a batch *)
(* endpoint answers with a null entry, env.addFails says whether           *)
(* playlist_add_items raises TypeError.                                    *)
(***************************************************************************)
Keep(s, S) == SelectSeq(s, LAMBDA x : x \in S)

Drop(s, S) == SelectSeq(s, LAMBDA x : x \notin S)

Front(s) == SubSeq(s, 1, Len(s) - 1)

\* [dict.get(id) for id in ids if id in dict]
Lookup(ids, dict) ==
    [i \in 1..Len(Keep(ids, DOMAIN dict)) |-> dict[Keep(ids, DOMAIN dict)[i]]]

\* the result of a batch getter: the world and the objects in request order
BatchResult(p, ids) == [w |-> p.w, ret |-> Lookup(ids, p.dict)]

TracksResult(p) == [w |-> p.w, ret |-> p.tracks]

\* Artist.get_artists, body of the first loop: cache, then database
ArtistsStep(r, id, client, refresh) ==
    IF InCache(r.w, "artist", id) /\ (~client \/ ~refresh)
    THEN [r EXCEPT !.dict = Put(@, id, r.w.cache.artist[id])]
    ELSE IF client /\ (~ArtistUpdateFromDb(r.w, id).found \/ refresh)
    THEN [r EXCEPT !.fetch = Append(@, id)]
    ELSE [r EXCEPT !.dict = Put(@, id, IF client THEN ArtistUpdateFromDb(r.w, id).obj
                                       ELSE BlankArtist(id))]

RECURSIVE ArtistsFromCacheOrDb(_, _, _, _)
ArtistsFromCacheOrDb(w, ids, client, refresh) ==
    IF ids = <<>> THEN [w |-> w, dict |-> EmptyMap, fetch |-> <<>>]
    ELSE ArtistsStep(ArtistsFromCacheOrDb(w, Front(ids), client, refresh),
                     ids[Len(ids)], client, refresh)

\* Artist.get_artists, body of the loop over one batch's answer
StoreArtist(r, o, sync) ==
    [r EXCEPT !.w = IF sync THEN ArtistSyncToDb(CacheObject(@, "artist", o), o)
                    ELSE CacheObject(@, "artist", o),
              !.dict = Put(@, o.id, o)]

RECURSIVE StoreArtists(_, _, _)
StoreArtists(r, raw, sync) ==
    IF raw = <<>> THEN r
    ELSE StoreArtists(StoreArtist(r, [id |-> Head(raw), name |-> api.gen], sync),
                      Tail(raw), sync)

RECURSIVE FetchArtists(_, _, _, _)
FetchArtists(r, batches, sync, env) ==
    IF batches = <<>> THEN r
    ELSE FetchArtists(StoreArtists([r EXCEPT !.w = Call(@, <<"artists", Head(batches)>>)],
                                   Drop(Head(batches), env.nullArtists), sync),
                      Tail(batches), sync, env)

\* get_artists after the first loop answered p1
ArtistsAfterDb(p1, artist_ids, client, sync, env) ==
    BatchResult(IF p1.fetch # <<>> /\ client
            THEN FetchArtists(p1, Batches(p1.fetch, ARTIST_BATCH_SIZE), sync, env)
            ELSE p1,
            artist_ids)

GetArtists(w, artist_ids, client, refresh, sync, env) ==
    IF artist_ids = <<>> THEN [w |-> w, ret |-> <<>>]
    ELSE ArtistsAfterDb(ArtistsFromCacheOrDb(w, Unique(artist_ids), client, refresh),
                        artist_ids, client, sync, env)

\* Album.get_albums, body of the first loop once update_from_db answered d
AlbumsStepDb(r, d, id, refresh) ==
    IF ~d.found \/ refresh
    THEN [r EXCEPT !.w = d.w, !.fetch = Append(@, id)]
    ELSE [r EXCEPT !.w = d.w, !.dict = Put(@, id, d.obj)]

\* Album.get_albums, body of the first loop: cache, then database
AlbumsStep(r, id, client, refresh) ==
    IF InCache(r.w, "album", id) /\ (~client \/ ~refresh)
    THEN [r EXCEPT !.dict = Put(@, id, r.w.cache.album[id])]
    ELSE IF ~client
    THEN [r EXCEPT !.dict = Put(@, id, BlankAlbum(id))]
    ELSE AlbumsStepDb(r, AlbumUpdateFromDb(r.w, id, client), id, refresh)

RECURSIVE AlbumsFromCacheOrDb(_, _, _, _)
AlbumsFromCacheOrDb(w, ids, client, refresh) ==
    IF ids = <<>> THEN [w |-> w, dict |-> EmptyMap, fetch |-> <<>>]
    ELSE AlbumsStep(AlbumsFromCacheOrDb(w, Front(ids), client, refresh),
                    ids[Len(ids)], client, refresh)

\* Album.get_albums, body of the loop over one batch's answer; the album
\* is cached and synced with artists = [] ("populated by caller")
StoreAlbum(r, o, sync) ==
    [r EXCEPT !.w = IF sync THEN AlbumSyncToDb(CacheObject(@, "album", o), o)
                    ELSE CacheObject(@, "album", o),
              !.dict = Put(@, o.id, o)]

RECURSIVE StoreAlbums(_, _, _)
StoreAlbums(r, raw, sync) ==
    IF raw = <<>> THEN r
    ELSE StoreAlbums(StoreAlbum(r, [id |-> Head(raw), name |-> api.gen,
                                    artists_id |-> AlbumArtists[Head(raw)],
                                    artists |-> {}], sync),
                     Tail(raw), sync)

RECURSIVE FetchAlbums(_, _, _, _)
FetchAlbums(r, batches, sync, env) ==
    IF batches = <<>> THEN r
    ELSE FetchAlbums(StoreAlbums([r EXCEPT !.w = Call(@, <<"albums", Head(batches)>>)],
                                 Drop(Head(batches), env.nullAlbums), sync),
                     Tail(batches), sync, env)

\* get_albums after the first loop answered p1
AlbumsAfterDb(p1, album_ids, client, sync, env) ==
    BatchResult(IF p1.fetch # <<>> /\ client
            THEN FetchAlbums(p1, Batches(p1.fetch, ALBUM_BATCH_SIZE), sync, env)
            ELSE p1,
            album_ids)

GetAlbums(w, album_ids, client, refresh, sync, env) ==
    IF album_ids = <<>> THEN [w |-> w, ret |-> <<>>]
    ELSE AlbumsAfterDb(AlbumsFromCacheOrDb(w, Unique(album_ids), client, refresh),
                       album_ids, client, sync, env)

\* Track.get_tracks phase 1, one id once update_from_db answered d
TracksStepDb(r, d, id) ==
    IF d.found
    THEN [r EXCEPT !.w = d.w, !.tracks = Append(@, d.obj)]
    ELSE [r EXCEPT !.w = d.w, !.fetch = Append(@, id)]

\* Track.get_tracks phase 1, one id: cache, then database, else to fetch
TracksStep(r, id, client, refresh) ==
    IF InCache(r.w, "track", id) /\ ~refresh
    THEN [r EXCEPT !.tracks = Append(@, r.w.cache.track[id])]
    ELSE IF refresh
    THEN [r EXCEPT !.fetch = Append(@, id)]
    ELSE TracksStepDb(r, TrackUpdateFromDb(r.w, id, client), id)

RECURSIVE TracksFromCacheOrDb(_, _, _, _)
TracksFromCacheOrDb(w, ids, client, refresh) ==
    IF ids = <<>> THEN [w |-> w, tracks |-> <<>>, fetch |-> <<>>]
    ELSE TracksStep(TracksFromCacheOrDb(w, Front(ids), client, refresh),
                    ids[Len(ids)], client, refresh)

\* Track.get_tracks phase 2: one tracks() call per batch, null entries dropped
RECURSIVE FetchTracks(_, _, _)
FetchTracks(r, batches, env) ==
    IF batches = <<>> THEN r
    ELSE FetchTracks([r EXCEPT !.w = Call(@, <<"tracks", Head(batches)>>),
                               !.raw = @ \o Drop(Head(batches), env.nullTracks)],
                     Tail(batches), env)

ById(objs) == [k \in {objs[i].id : i \in DOMAIN objs} |->
                  (CHOOSE o \in Range(objs) : o.id = k)]

\* Track.get_tracks phase 7: build, cache and append one fetched track
BuildTrack(r, o) ==
    [r EXCEPT !.w = CacheObject(@, "track", o), !.tracks = Append(@, o)]

RECURSIVE BuildTracks(_, _, _, _)
BuildTracks(r, raw, albums_dict, artists_dict) ==
    IF raw = <<>> THEN r
    ELSE BuildTracks(
             BuildTrack(r, [id |-> Head(raw), name |-> api.gen,
                            album_id |-> TrackAlbum[Head(raw)],
                            album |-> IF TrackAlbum[Head(raw)] \in DOMAIN albums_dict
                                      THEN albums_dict[TrackAlbum[Head(raw)]].name ELSE 0,
                            artists |-> TrackArtists[Head(raw)] \cap DOMAIN artists_dict,
                            loaded |-> TRUE]),
             Tail(raw), albums_dict, artists_dict)

RECURSIVE Flatten(_)
Flatten(ss) == IF ss = <<>> THEN <<>> ELSE Head(ss) \o Flatten(Tail(ss))

AlbumIdsOf(raw) == [i \in 1..Len(raw) |-> TrackAlbum[raw[i]]]

ArtistIdsOf(raw) == Flatten([i \in 1..Len(raw) |-> SetToSeq(TrackArtists[raw[i]])])

\* get_tracks phases 6-7, once the artists are there
TracksAfterArtists(ar, tracks, raw, albums_dict) ==
    TracksResult(BuildTracks([w |-> ar.w, tracks |-> tracks], raw, albums_dict, ById(ar.ret)))

\* get_tracks phase 5, once the albums are there
TracksAfterAlbums(al, tracks, raw, client, refresh, env) ==
    TracksAfterArtists(GetArtists(al.w, Unique(ArtistIdsOf(raw)), client, refresh, TRUE, env),
                       tracks, raw, ById(al.ret))

\* get_tracks phases 3-4, once the batches answered
TracksAfterFetch(p2, tracks, client, refresh, env) ==
    TracksAfterAlbums(GetAlbums(p2.w, Unique(AlbumIdsOf(p2.raw)), client, refresh, TRUE, env),
                      tracks, p2.raw, client, refresh, env)

\* get_tracks after phase 1 answered p1
TracksAfterDb(p1, client, refresh, batch_size, env) ==
    IF p1.fetch = <<>> THEN [w |-> p1.w, ret |-> p1.tracks]
    ELSE TracksAfterFetch(FetchTracks([w |-> p1.w, raw |-> <<>>],
                                      Batches(p1.fetch, batch_size), env),
                          p1.tracks, client, refresh, env)

GetTracks(w, tracks_id, client, refresh, batch_size, env) ==
    IF tracks_id = <<>> THEN [w |-> w, ret |-> <<>>]
    ELSE TracksAfterDb(TracksFromCacheOrDb(w, tracks_id, client, refresh),
                       client, refresh, batch_size, env)

(***************************************************************************)
(* Playlist                                                                *)
(***************************************************************************)
\* Playlist(id): raw_tracks is None and tracks is unset (loaded = "blank")
BlankPlaylist(id) ==
    [id |-> id, name |-> 0, raw_tracks |-> <<>>, tracks |-> <<>>, loaded |-> "blank"]

\* only the first page of results is read
FirstPage(tracks, pages) == IF pages = <<>> THEN tracks ELSE tracks \o Head(pages)

\* tracks = results["items"], extended with the items of every further page
RECURSIVE AllItems(_, _)
AllItems(tracks, pages) ==
    IF pages = <<>> THEN tracks ELSE AllItems(tracks \o Head(pages), Tail(pages))

\* the (track id, added_at) pairs update_from_api keeps from the items: an
\* item whose track is null is skipped, a relinked track goes by the id in
\* linked_from
RawTracks(tracks) ==
    LET kept == SelectSeq(tracks, LAMBDA track : track.track # "None")
    IN  [i \in 1..Len(kept) |->
            <<IF kept[i].linked_from # "None" THEN kept[i].linked_from
              ELSE kept[i].track,
              kept[i].added_at>>]

Ids(raw_tracks) == [i \in 1..Len(raw_tracks) |-> raw_tracks[i][1]]

\* update_from_db loads the name and (track_id, added_at) tuples, no Track
\* objects and no raw_tracks (loaded = "db")
PlaylistUpdateFromDb(w, id) ==
    IF id \in DOMAIN w.db.playlists
    THEN [found |-> TRUE,
          obj |-> [id |-> id, name |-> w.db.playlists[id].name, raw_tracks |-> <<>>,
                   tracks |-> <<>>, loaded |-> "db"]]
    ELSE [found |-> FALSE, obj |-> BlankPlaylist(id)]

\* update_from_api once Track.get_tracks answered g
PlaylistLoaded(g, id, raw_tracks) ==
    [w |-> g.w,
     obj |-> [id |-> id, name |-> api.gen, raw_tracks |-> raw_tracks,
              tracks |-> g.ret, loaded |-> "api"]]

\* update_from_api once the pages of playlist_items were read: one request
\* for the first page and one for every page after it
PlaylistItemsRead(w, id, client, env, pages) ==
    PlaylistLoaded(GetTracks([w EXCEPT !.calls =
                                 @ \o <<<<"playlist", id>>, <<"playlist_items", id>>>>
                                   \o [i \in 1..Len(Tail(pages)) |-> <<"next", id>>]],
                             Ids(RawTracks(AllItems(<<>>, pages))), client, FALSE,
                             BATCH_SIZE, env),
                   id, RawTracks(AllItems(<<>>, pages)))

\* the API answers with pages of env.limit items, an empty playlist with one
\* page of no items
PlaylistUpdateFromApi(w, id, client, env) ==
    PlaylistItemsRead(w, id, client, env,
                      IF api.items[id] = <<>> THEN <<<<>>>>
                      ELSE Batches(api.items[id], env.limit))

RECURSIVE TrackSyncEach(_, _)
TrackSyncEach(w, tracks) ==
    IF tracks = <<>> THEN w
    ELSE TrackSyncEach(TrackSyncToDb(w, Head(tracks)), Tail(tracks))

\* INSERT OR REPLACE in the place of INSERT OR IGNORE: the last occurrence wins
ReplacePlaylistTrack(rows, id, raw_track) ==
    {r \in rows : ~(r[1] = id /\ r[2] = raw_track[1])}
        \cup {<<id, raw_track[1], raw_track[2]>>}

\* INSERT OR IGNORE INTO playlists_tracks, primary key (playlist_id, track_id)
InsertPlaylistTrack(rows, id, raw_track) ==
    IF \E r \in rows : r[1] = id /\ r[2] = raw_track[1] THEN rows
    ELSE rows \cup {<<id, raw_track[1], raw_track[2]>>}

RECURSIVE InsertPlaylistTracks(_, _, _)
InsertPlaylistTracks(rows, id, raw_tracks) ==
    IF raw_tracks = <<>> THEN rows
    ELSE InsertPlaylistTracks(InsertPlaylistTrack(rows, id, Head(raw_tracks)),
                              id, Tail(raw_tracks))

\* the queries of Playlist.sync_to_db, run after the tracks were synced
PlaylistQueries(w, o) ==
    [w EXCEPT
       !.db.playlists = Put(@, o.id, [name |-> o.name]),
       !.db.playlists_tracks =
           InsertPlaylistTracks({r \in @ : r[1] # o.id}, o.id, o.raw_tracks),
       !.synced = Append(@, [id |-> o.id, raw_tracks |-> o.raw_tracks])]

\* A playlist that was not loaded from the API has no Track objects and no
\* raw_tracks: sync_to_db raises before its queries run.
PlaylistSyncToDb(w, o) ==
    IF o.loaded # "api" THEN w
    ELSE PlaylistQueries(TrackSyncEach(w, o.tracks), o)

\* get_playlist after update_from_api: cache_object, then sync_to_db if asked
PlaylistFetched(a, sync) ==
    [w |-> IF sync THEN PlaylistSyncToDb(CacheObject(a.w, "playlist", a.obj), a.obj)
           ELSE CacheObject(a.w, "playlist", a.obj),
     ret |-> a.obj, tiers |-> <<"cache", "db", "api">>]

\* get_playlist after update_from_db answered d
PlaylistAfterDb(w, d, id, client, refresh, sync, env) ==
    IF ~d.found \/ refresh
    THEN PlaylistFetched(PlaylistUpdateFromApi(w, id, client, env), sync)
    ELSE [w |-> w, ret |-> d.obj, tiers |-> <<"cache", "db">>]

GetPlaylist(w, id, client, refresh, sync, env) ==
    IF InCache(w, "playlist", id) /\ (~client \/ ~refresh)
    THEN [w |-> w, ret |-> w.cache.playlist[id], tiers |-> <<"cache">>]
    ELSE IF ~client
    THEN [w |-> w, ret |-> BlankPlaylist(id), tiers |-> <<"cache">>]
    ELSE PlaylistAfterDb(w, PlaylistUpdateFromDb(w, id), id, client, refresh, sync, env)

(***************************************************************************)
(* Client                                                                  *)
(***************************************************************************)
GetPlaylistsId(w, excluded_playlists) ==
    [w |-> Call(w, <<"current_user_playlists">>),
     ret |-> SelectSeq(PlaylistOrder,
                       LAMBDA p : PlaylistOwner[p] = User /\ p \notin excluded_playlists)]

\* A pattern is an exact playlist id (22 alphanumeric characters), or a
\* name pattern, given by the playlists whose stored name it matches.
IdPattern(p) == [kind |-> "id", id |-> p, matches |-> {}]

LikePattern(S) == [kind |-> "like", id |-> "None", matches |-> S]

ResolvePattern(w, pat) ==
    IF pat.kind = "id" THEN <<pat.id>>
    ELSE Keep(PlaylistOrder, pat.matches \cap DOMAIN w.db.playlists)

RECURSIVE ResolvePatterns(_, _)
ResolvePatterns(w, patterns) ==
    IF patterns = <<>> THEN <<>>
    ELSE ResolvePattern(w, Head(patterns)) \o ResolvePatterns(w, Tail(patterns))

\* the body of the loop at the end of update_playlists: the playlist that
\* get_playlist(refresh=True) returned (and synced) is synced once more
SyncAgain(g) == PlaylistSyncToDb(g.w, g.ret)

RECURSIVE RefreshPlaylists(_, _, _)
RefreshPlaylists(w, playlist_ids, env) ==
    IF playlist_ids = <<>> THEN w
    ELSE RefreshPlaylists(SyncAgain(GetPlaylist(w, Head(playlist_ids), TRUE, TRUE, TRUE, env)),
                          Tail(playlist_ids), env)

\* a deletion that also clears the tracks table
DeleteWithTracks(w, gone) ==
    [w EXCEPT !.db.playlists = Without(@, gone),
              !.db.playlists_tracks = {r \in @ : r[1] \notin gone},
              !.db.tracks = EmptyMap]

\* DELETE FROM playlists / playlists_tracks WHERE the id is one of gone
DeletePlaylists(w, gone) ==
    [w EXCEPT !.db.playlists = Without(@, gone),
              !.db.playlists_tracks = {r \in @ : r[1] \notin gone}]

\* update_playlists without patterns, once get_playlists_id answered g
UpdateAll(g, env) ==
    RefreshPlaylists([g.w EXCEPT !.db.playlists = EmptyMap, !.db.playlists_tracks = {}],
                     g.ret, env)

UpdatePlaylists(w, excluded_playlists, playlists_patterns, env) ==
    IF playlists_patterns # <<>>
    THEN RefreshPlaylists(DeletePlaylists(w, Range(ResolvePatterns(w, playlists_patterns))),
                          ResolvePatterns(w, playlists_patterns), env)
    ELSE UpdateAll(GetPlaylistsId(w, excluded_playlists), env)

(***************************************************************************)
(* discover_from_playlists, add_tracks_from_file_batch                     *)
(***************************************************************************)
\* Track.is_orphaned: COUNT(*) of the track's playlists_tracks rows is 0
TrackIsOrphaned(w, id) == ~\E r \in w.db.playlists_tracks : r[2] = id

\* the if / elif / else over one track of a source playlist
Verdict(w, id) ==
    IF ~TrackUpdateFromDb(w, id, FALSE).found THEN "new"
    ELSE IF TrackIsOrphaned(w, id) THEN "orphaned"
    ELSE "in_playlists"

\* what the run saw of one source track, with the database as it was then
Seen(w, id) ==
    [id |-> id,
     inDb |-> id \in DOMAIN w.db.tracks,
     inPlaylists |-> \E r \in w.db.playlists_tracks : r[2] = id,
     taken |-> Verdict(w, id) = "new"]

\* the tracks of one source that go to new_tracks
NewOf(w, tracks) == SelectSeq(tracks, LAMBDA t : Verdict(w, t.id) = "new")

\* a run that does not write the new tracks to the database
SourceNotSynced(w, new_tracks, seen) ==
    [w |-> w, new_tracks |-> new_tracks, seen |-> seen]

\* one source playlist, once new_tracks is extended: every new track is synced
SourceSynced(w, new_tracks, seen) ==
    [w |-> TrackSyncEach(w, new_tracks), new_tracks |-> new_tracks, seen |-> seen]

\* one source playlist, once playlist.get_tracks answered tr
SourceTracks(r, tr) ==
    SourceSynced(tr.w, r.new_tracks \o NewOf(tr.w, tr.ret),
                 r.seen \o [i \in 1..Len(tr.ret) |-> Seen(tr.w, tr.ret[i].id)])

\* one source playlist, once get_playlist(refresh=True, sync_to_db=False) answered pl
SourcePlaylist(r, pl, env) ==
    SourceTracks(r, GetTracks(pl.w, Ids(pl.ret.raw_tracks), TRUE, FALSE, BATCH_SIZE, env))

\* the loop over sources_playlists_ids
RECURSIVE DiscoverSources(_, _, _)
DiscoverSources(r, sources, env) ==
    IF sources = <<>> THEN r
    ELSE DiscoverSources(
             SourcePlaylist(r, GetPlaylist(r.w, Head(sources), TRUE, TRUE, FALSE, env), env),
             Tail(sources), env)

\* Playlist.add_tracks: one playlist_add_items call per batch; a TypeError
\* is caught and printed, and the batch is not added
RECURSIVE AddBatches(_, _, _, _)
AddBatches(r, id, batches, env) ==
    IF batches = <<>> THEN r
    ELSE AddBatches([w |-> Call(r.w, <<"playlist_add_items", id, Head(batches)>>),
                     added |-> IF env.addFails THEN r.added ELSE r.added \o Head(batches)],
                    id, Tail(batches), env)

TrackIds(tracks) == [i \in 1..Len(tracks) |-> tracks[i].id]

PlaylistAddTracks(w, id, tracks, batch_size, env) ==
    AddBatches([w |-> w, added |-> <<>>], id, Batches(TrackIds(tracks), batch_size), env)

\* the end of discover_from_playlists, once add_tracks answered a
Discovered(r, a) ==
    [w |-> a.w, seen |-> r.seen, added |-> a.added, new_tracks |-> TrackIds(r.new_tracks)]

\* discover_from_playlists once the loop over the sources answered r;
\* add_tracks is called without batch_size, so with its default
DiscoverAdd(r, discover_playlist_id, batch_size, env) ==
    Discovered(r, IF Len(r.new_tracks) > 0
                  THEN PlaylistAddTracks(r.w, discover_playlist_id, r.new_tracks, BATCH_SIZE, env)
                  ELSE [w |-> r.w, added |-> <<>>])

\* discover_from_playlists once the discover playlist was fetched (dp)
DiscoverFrom(dp, sources_playlists_ids, batch_size, env) ==
    DiscoverAdd(DiscoverSources([w |-> dp.w, new_tracks |-> <<>>, seen |-> <<>>],
                                sources_playlists_ids, env),
                dp.ret.id, batch_size, env)

DiscoverFromPlaylists(w, discover_playlist_id, sources_playlists_ids, batch_size, env) ==
    DiscoverFrom(GetPlaylist(w, discover_playlist_id, TRUE, TRUE, FALSE, env),
                 sources_playlists_ids, batch_size, env)

\* the loop of add_tracks_from_file_batch over what get_tracks answered
SyncReturned(g) == [w |-> TrackSyncEach(g.w, g.ret), ret |-> g.ret]

\* misc.add_tracks_from_file_batch: Track.get_tracks, then sync_to_db of each
AddTracksFromFileBatch(w, tracks_ids, batch_size, env) ==
    SyncReturned(GetTracks(w, tracks_ids, TRUE, FALSE, batch_size, env))

(***************************************************************************)
(* The state machine.                                                      *)
(***************************************************************************)
World == [cache |-> cache, db |-> db, calls |-> <<>>, synced |-> <<>>]

Envs == [nullTracks : SUBSET Tracks, nullAlbums : SUBSET Albums,
         nullArtists : SUBSET Artists, addFails : BOOLEAN, limit : {MaxItems}]

\* nothing fails and one page holds a whole playlist
NoFault ==
    [nullTracks |-> {}, nullAlbums |-> {}, nullArtists |-> {}, addFails |-> FALSE,
     limit |-> MaxItems]

\* the globals of sqlite.py when the module is loaded: no connection, no
\* database migrated; open is the set of connections of the process that
\* are open and today the date date('now') gives
FreshProcess(today) ==
    [db_connection |-> "None", current_database |-> "None", migrated_databases |-> {},
     open |-> {}, today |-> today]

Item(t, d) == [track |-> t, linked_from |-> "None", added_at |-> d]

NoItems == [p \in Playlists |-> <<>>]

InitWith(items) ==
    /\ cache = [artist |-> EmptyMap, album |-> EmptyMap, track |-> EmptyMap,
                playlist |-> EmptyMap]
    /\ db = [tracks |-> EmptyMap, albums |-> EmptyMap, artists |-> EmptyMap,
             playlists |-> EmptyMap, playlists_tracks |-> {}, albums_tracks |-> {},
             tracks_artists |-> {}, albums_artists |-> {}]
    /\ api = [gen |-> 1, items |-> items]
    /\ last = [op |-> "init"]
    /\ hist = [added |-> {}, pending |-> {}]
    /\ sqlite = FreshProcess(1)

Init == InitWith(NoItems)

InDb(kind, id) ==
    CASE kind = "artist" -> id \in DOMAIN db.artists
      [] kind = "album" -> id \in DOMAIN db.albums
      [] kind = "track" -> id \in DOMAIN db.tracks
      [] kind = "playlist" -> id \in DOMAIN db.playlists

\* the playlists_tracks rows of one playlist
PlaylistRows(id) == {r \in db.playlists_tracks : r[1] = id}

Commit(w) == cache' = w.cache /\ db' = w.db

\* a getter call: the new state, and what the call leaves for the
\* properties to look at
Got(kind, id, refresh, sync, g) ==
    /\ Commit(g.w)
    /\ last' = [op |-> "get", kind |-> kind, id |-> id, refresh |-> refresh,
                sync |-> sync, tiers |-> g.tiers, ret |-> g.ret, calls |-> g.w.calls,
                synced |-> g.w.synced, inCache |-> id \in DOMAIN cache[kind],
                inDb |-> InDb(kind, id), gen |-> api.gen,
                cached |-> IF id \in DOMAIN g.w.cache[kind]
                           THEN <<g.w.cache[kind][id]>> ELSE <<>>,
                had |-> IF kind = "playlist" THEN {r[2] : r \in PlaylistRows(id)} ELSE {}]
    /\ UNCHANGED <<api, hist, sqlite>>

CallGetArtist(id, refresh, sync) ==
    Got("artist", id, refresh, sync, GetArtist(World, id, TRUE, refresh, sync))

CallGetAlbum(id, refresh, sync) ==
    Got("album", id, refresh, sync, GetAlbum(World, id, TRUE, refresh, sync))

CallGetTrack(id, refresh, sync) ==
    Got("track", id, refresh, sync, GetTrack(World, id, TRUE, refresh, sync))

CallGetPlaylist(id, refresh, sync, env) ==
    Got("playlist", id, refresh, sync, GetPlaylist(World, id, TRUE, refresh, sync, env))

AddedFromFile(tracks_ids, g) ==
    /\ Commit(g.w)
    /\ last' = [op |-> "add_tracks_from_file_batch", ids |-> tracks_ids,
                calls |-> g.w.calls, synced |-> g.w.synced, ret |-> TrackIds(g.ret)]
    /\ UNCHANGED <<api, hist, sqlite>>

CallAddTracksFromFileBatch(tracks_ids, env) ==
    AddedFromFile(tracks_ids, AddTracksFromFileBatch(World, tracks_ids, BATCH_SIZE, env))

Updated(excluded_playlists, playlists_patterns, w) ==
    /\ Commit(w)
    /\ last' = [op |-> "update_playlists", excluded |-> excluded_playlists,
                patterns |-> playlists_patterns,
                calls |-> w.calls, synced |-> w.synced,
                before |-> [tracks |-> DOMAIN db.tracks, albums |-> DOMAIN db.albums,
                            artists |-> DOMAIN db.artists,
                            playlists |-> DOMAIN db.playlists]]
    /\ UNCHANGED <<api, hist, sqlite>>

CallUpdatePlaylists(excluded_playlists, playlists_patterns, env) ==
    Updated(excluded_playlists, playlists_patterns,
            UpdatePlaylists(World, excluded_playlists, playlists_patterns, env))

ItemTracks(items) == {items[i].track : i \in DOMAIN items}

Discovering(discover_playlist_id, sources_playlists_ids, d) ==
    /\ Commit(d.w)
    /\ api' = [api EXCEPT !.items[discover_playlist_id] =
                   @ \o [i \in 1..Len(d.added) |-> Item(d.added[i], 1)]]
    /\ last' = [op |-> "discover", discover |-> discover_playlist_id,
                sources |-> sources_playlists_ids, calls |-> d.w.calls,
                synced |-> d.w.synced, seen |-> d.seen,
                new_tracks |-> d.new_tracks, added |-> d.added,
                addedBefore |-> hist.added,
                inDiscoverBefore |-> ItemTracks(api.items[discover_playlist_id])]
    /\ hist' = [added |-> hist.added \cup Range(d.added),
                pending |-> (hist.pending \cup Range(d.new_tracks))
                            \ (hist.added \cup Range(d.added))]
    /\ UNCHANGED sqlite

CallDiscover(discover_playlist_id, sources_playlists_ids, env) ==
    Discovering(discover_playlist_id, sources_playlists_ids,
                DiscoverFromPlaylists(World, discover_playlist_id, sources_playlists_ids,
                                      BATCH_SIZE, env))

\* the remote side: the catalog data changes, the user edits playlists
ApiChange ==
    /\ api.gen < MaxGen
    /\ api' = [api EXCEPT !.gen = @ + 1]
    /\ UNCHANGED <<cache, db, last, hist, sqlite>>

\* an item is appended to a playlist: a plain track, a track that is no more
\* available (track is null), or a track the API relinked to another one
UserAddItem(p, item) ==
    /\ Len(api.items[p]) < MaxItems
    /\ api' = [api EXCEPT !.items[p] = Append(@, item)]
    /\ UNCHANGED <<cache, db, last, hist, sqlite>>

UserAdd(p, t, d) ==
    /\ Len(api.items[p]) < MaxItems
    /\ api' = [api EXCEPT !.items[p] = Append(@, Item(t, d))]
    /\ UNCHANGED <<cache, db, last, hist, sqlite>>

UserRemove(p, t) ==
    /\ t \in ItemTracks(api.items[p])
    /\ api' = [api EXCEPT !.items[p] = SelectSeq(@, LAMBDA it : it.track # t)]
    /\ UNCHANGED <<cache, db, last, hist, sqlite>>

\* a pickle file of the object cache is removed (the cache directory is
\* the user's to clear; the database is a separate file)
CacheEvict(kind, id) ==
    /\ id \in DOMAIN cache[kind]
    /\ cache' = [cache EXCEPT ![kind] = Without(@, {id})]
    /\ UNCHANGED <<db, api, last, hist, sqlite>>

\* Spec: the four entity getters, on a catalog that does not change, with
\* cache files that come and go
Getters(refreshes, syncs) ==
    \/ \E refresh \in refreshes, sync \in syncs : CallGetArtist("r1", refresh, sync)
    \/ \E refresh \in refreshes, sync \in syncs : CallGetAlbum("a1", refresh, sync)
    \/ \E refresh \in refreshes, sync \in syncs : CallGetTrack("t1", refresh, sync)
    \/ \E refresh \in refreshes, sync \in syncs :
          CallGetPlaylist("p1", refresh, sync, NoFault)

Evictions ==
    \E kind \in {"artist", "album", "track", "playlist"} :
        \E id \in DOMAIN cache[kind] : CacheEvict(kind, id)

InitGet == InitWith([NoItems EXCEPT !["p1"] = <<Item("t1", 1)>>])

Spec ==
    InitGet /\ [][\/ Getters(BOOLEAN, BOOLEAN)
                  \/ Evictions]_vars

\* SpecRefresh: the getters, syncing, on a catalog whose data changes
SpecRefresh ==
    InitGet /\ [][\/ Getters(BOOLEAN, {TRUE})
                  \/ Evictions
                  \/ ApiChange]_vars

\* SpecMirror: the operations that write tracks and playlists to the
\* database, on playlists the user edits, with batch answers that may hold
\* null entries
MirrorEnvs ==
    {NoFault, [NoFault EXCEPT !.nullAlbums = {"a2"}], [NoFault EXCEPT !.nullArtists = {"r2"}],
     [NoFault EXCEPT !.nullTracks = {"t2"}]}

SpecMirror ==
    /\ InitWith([NoItems EXCEPT !["p1"] = <<Item("t1", 1), Item("t2", 1)>>])
    /\ [][\/ \E refresh \in BOOLEAN, env \in MirrorEnvs :
                CallGetPlaylist("p1", refresh, TRUE, env)
          \/ \E t \in Tracks, refresh \in BOOLEAN : CallGetTrack(t, refresh, TRUE)
          \/ \E ids \in {<<"t2">>, <<"t1", "t2">>}, env \in MirrorEnvs :
                CallAddTracksFromFileBatch(ids, env)
          \/ \E t \in DOMAIN cache.track : CacheEvict("track", t)]_vars

\* SpecSync: a playlist the user edits (tracks added twice, at different
\* dates, and removed), fetched and synced to the database
SpecSync ==
    Init /\ [][\/ \E t \in Tracks, d \in 1..MaxDate : UserAdd("p1", t, d)
               \/ \E t \in Tracks : UserRemove("p1", t)
               \/ CallGetPlaylist("p1", TRUE, TRUE, NoFault)]_vars

\* SpecUpdate: update_playlists with and without exclusions and patterns
SpecUpdate ==
    /\ InitWith([NoItems EXCEPT !["p1"] = <<Item("t1", 1)>>, !["p2"] = <<Item("t2", 1)>>])
    /\ [][\/ \E excluded \in {{}, {"p1"}},
                patterns \in {<<>>, <<IdPattern("p2")>>,
                              <<IdPattern("pd"), LikePattern({"p1"})>>} :
                CallUpdatePlaylists(excluded, patterns, NoFault)
          \/ \E t \in Tracks : UserAdd("p1", t, 1)
          \/ \E t \in Tracks : UserRemove("p1", t)]_vars

\* SpecDiscover: runs of discover_from_playlists into the playlist "pd",
\* between edits of the playlists and runs of update_playlists
SpecDiscover ==
    /\ InitWith([NoItems EXCEPT !["p2"] = <<Item("t2", 1)>>])
    /\ [][\/ \E env \in {e \in Envs : e.nullTracks = {} /\ e.nullAlbums = {}
                                       /\ e.nullArtists = {}} :
                CallDiscover("pd", <<"p1", "p2">>, env)
          \/ \E t \in Tracks : UserAdd("p1", t, 1)
          \/ \E t \in Tracks : UserRemove("p1", t)
          \/ UserAdd("pd", "t1", 1)
          \/ CallUpdatePlaylists({}, <<>>, NoFault)]_vars

\* SpecBatch: Track.get_tracks called on its own, with small batch sizes,
\* on requests that may list an id twice
MaxBatch == 2       \* batch sizes are 1..MaxBatch

\* a batch getter call: the new state, and what the call leaves for the
\* properties to look at (absent: the requested ids that were in neither
\* the cache nor the database; missing: the same, or all ids under refresh)
GotBatch(op, kind, ids, refresh, batch_size, env, g) ==
    /\ Commit(g.w)
    /\ last' = [op |-> op, ids |-> ids, refresh |-> refresh, env |-> env,
                batch_size |-> batch_size, ret |-> TrackIds(g.ret), calls |-> g.w.calls,
                absent |-> SelectSeq(ids, LAMBDA t : ~InCache(World, kind, t)
                                                     /\ ~InDb(kind, t)),
                missing |-> IF refresh THEN ids
                            ELSE SelectSeq(ids, LAMBDA t : ~InCache(World, kind, t)
                                                           /\ ~InDb(kind, t))]
    /\ UNCHANGED <<api, hist, sqlite>>

SpecBatch ==
    Init /\ [][\/ \E tracks_id \in {<<>>, <<"t1">>, <<"t2", "t1">>, <<"t1", "t2", "t1">>,
                                     <<"t2", "t2", "t1">>},
                     refresh \in BOOLEAN, batch_size \in 1..MaxBatch,
                     env \in {NoFault, [NoFault EXCEPT !.nullTracks = {"t2"}]} :
                     GotBatch("get_tracks", "track", tracks_id, refresh, batch_size, env,
                              GetTracks(World, tracks_id, TRUE, refresh, batch_size, env))
               \/ \E t \in Tracks : CallGetTrack(t, FALSE, TRUE)
               \/ \E t \in DOMAIN cache.track : CacheEvict("track", t)]_vars

\* SpecAlbums: Album.get_albums on requests that list an album twice, with
\* albums in the cache only, the database only, both or neither, and an
\* album the API answers null for
SpecAlbums ==
    Init /\ [][\/ \E album_ids \in {<<>>, <<"a1">>, <<"a1", "a2", "a1">>, <<"a2", "a1", "a2">>},
                     refresh \in BOOLEAN, sync_to_db \in BOOLEAN,
                     env \in {NoFault, [NoFault EXCEPT !.nullAlbums = {"a2"}]} :
                     GotBatch("get_albums", "album", album_ids, refresh, ALBUM_BATCH_SIZE, env,
                              GetAlbums(World, album_ids, TRUE, refresh, sync_to_db, env))
               \/ \E a \in Albums, sync_to_db \in BOOLEAN : CallGetAlbum(a, FALSE, sync_to_db)
               \/ \E a \in DOMAIN cache.album : CacheEvict("album", a)]_vars

\* SpecItems: a playlist holding plain, unavailable and relinked items, read
\* from the API in pages of 1..MaxItems items
SpecItems ==
    Init /\ [][\/ \E item \in {Item("t1", 1), Item("t2", MaxDate),
                              [track |-> "None", linked_from |-> "None", added_at |-> 1],
                              [track |-> "t2", linked_from |-> "t1", added_at |-> 1]} :
                     UserAddItem("p1", item)
               \/ \E limit \in 1..MaxItems, sync \in BOOLEAN :
                     CallGetPlaylist("p1", TRUE, sync, [NoFault EXCEPT !.limit = limit])]_vars

\* get_tracks_with_playlists_optimized: tracks JOIN playlists_tracks JOIN
\* playlists, without the excluded playlists, one row per track id
TracksWithPlaylists(d, excluded_playlist_ids) ==
    {[track_id |-> t,
      playlists |-> {r[1] : r \in {x \in d.playlists_tracks :
                                      /\ x[2] = t
                                      /\ x[1] \in DOMAIN d.playlists
                                      /\ x[1] \notin excluded_playlist_ids}},
      playlist_count |-> Cardinality({r[1] : r \in {x \in d.playlists_tracks :
                                      /\ x[2] = t
                                      /\ x[1] \in DOMAIN d.playlists
                                      /\ x[1] \notin excluded_playlist_ids}})] :
       t \in {t \in DOMAIN d.tracks :
                \E x \in d.playlists_tracks : /\ x[2] = t
                                              /\ x[1] \in DOMAIN d.playlists
                                              /\ x[1] \notin excluded_playlist_ids}}

\* find_duplicate_ids over the rows of the query, in the order it gave them
FindDuplicateIds(tracks) ==
    [i \in 1..Len(SelectSeq(tracks, LAMBDA track_info : track_info.playlist_count > 1)) |->
        [type |-> "ID",
         track |-> SelectSeq(tracks, LAMBDA track_info : track_info.playlist_count > 1)[i].track_id,
         count |-> SelectSeq(tracks, LAMBDA track_info : track_info.playlist_count > 1)[i].playlist_count,
         playlists |-> SelectSeq(tracks, LAMBDA track_info : track_info.playlist_count > 1)[i].playlists]]

\* results: the rows ORDER BY playlist_count DESC, equal counts in any order
CallFindDuplicateIds(excluded_playlist_ids, results) ==
    /\ Range(results) = TracksWithPlaylists(db, excluded_playlist_ids)
    /\ Len(results) = Cardinality(TracksWithPlaylists(db, excluded_playlist_ids))
    /\ \A i, j \in 1..Len(results) :
          i < j => results[i].playlist_count >= results[j].playlist_count
    /\ last' = [op |-> "find_duplicate_ids", excluded |-> excluded_playlist_ids,
                rows |-> db.playlists_tracks, ret |-> FindDuplicateIds(results)]
    /\ UNCHANGED <<cache, db, api, hist, sqlite>>

\* a for loop: the body applied to the elements of s in order
RECURSIVE Fold(_, _, _)
Fold(Body(_, _), r, s) == IF s = <<>> THEN r ELSE Fold(Body, Body(r, Head(s)), Tail(s))

\* for i, track1 in enumerate(tracks): for track2 in tracks[i + 1:]
PairsIn(tracks) ==
    Flatten([i \in 1..Len(tracks) |-> [k \in 1..(Len(tracks) - i) |-> <<tracks[i], tracks[i + k]>>]])

\* get_fuzzy_match_candidates: the same join as the duplicate-id query, one
\* candidate per track id with its name prefix and the names of the artists
\* it is linked to (every name of the catalog has min_name_length characters)
Candidates(d, excluded_playlist_ids) ==
    {[id |-> row.track_id, name_prefix |-> d.tracks[row.track_id].name,
      artists |-> {d.artists[a].name :
                      a \in {x \in DOMAIN d.artists : <<row.track_id, x>> \in d.tracks_artists}}] :
        row \in TracksWithPlaylists(d, excluded_playlist_ids)}

\* every pair of tracks sharing an artist is checked, seen or not
AllArtistPairs(candidates, seen_pairs) ==
    Flatten([a \in 1..Len(SetToSeq(UNION {c.artists : c \in Range(candidates)})) |->
                PairsIn(SelectSeq(candidates, LAMBDA c :
                    SetToSeq(UNION {x.artists : x \in Range(candidates)})[a] \in c.artists))])

\* pass 2, pass2_pairs_to_check: the pairs of tracks of one artist that were
\* not found in pass 1 and have different prefixes, in a dict keyed by the
\* sorted pair of ids
PairsToCheck(candidates, seen_pairs) ==
    Fold(LAMBDA d, p :
            IF \/ p[1].id = p[2].id
               \/ {p[1].id, p[2].id} \in seen_pairs
               \/ p[1].name_prefix = p[2].name_prefix
            THEN d
            ELSE IF \E i \in 1..Len(d) : {d[i][1].id, d[i][2].id} = {p[1].id, p[2].id}
            THEN [i \in 1..Len(d) |->
                    IF {d[i][1].id, d[i][2].id} = {p[1].id, p[2].id} THEN p ELSE d[i]]
            ELSE Append(d, p),
         <<>>,
         Flatten([a \in 1..Len(SetToSeq(UNION {c.artists : c \in Range(candidates)})) |->
                     PairsIn(SelectSeq(candidates, LAMBDA c :
                         SetToSeq(UNION {x.artists : x \in Range(candidates)})[a] \in c.artists))]))

\* pass 2 after pass 1 left r: partial_ratio on the names, then the
\* false-positive filter
Pass2(r, to_check, env) ==
    Fold(LAMBDA q, p :
            IF {p[1].id, p[2].id} \notin env.partial \/ {p[1].id, p[2].id} \in env.false_positive
            THEN q
            ELSE [seen_pairs |-> q.seen_pairs \cup {{p[1].id, p[2].id}},
                  duplicates |-> Append(q.duplicates,
                                        [track1 |-> p[1].id, track2 |-> p[2].id, pass |-> 2])],
         r, to_check)

\* pass 1 left r
AfterPass1(r, candidates, env) ==
    Pass2(r, PairsToCheck(candidates, r.seen_pairs), env).duplicates

\* find_duplicate_names over the candidates of the query; env says which
\* pairs of names token_set_ratio (matches) and partial_ratio (partial) put
\* over the threshold and which is_likely_false_positive rejects. Pass 1
\* compares the tracks of each prefix group.
FindDuplicateNames(candidates, env) ==
    AfterPass1(
        Fold(LAMBDA r, p :
                IF \/ {p[1].id, p[2].id} \notin env.matches
                   \/ p[1].id = p[2].id
                   \/ {p[1].id, p[2].id} \in r.seen_pairs
                   \/ {p[1].id, p[2].id} \in env.false_positive
                THEN r
                ELSE [seen_pairs |-> r.seen_pairs \cup {{p[1].id, p[2].id}},
                      duplicates |-> Append(r.duplicates,
                                            [track1 |-> p[1].id, track2 |-> p[2].id, pass |-> 1])],
             [seen_pairs |-> {}, duplicates |-> <<>>],
             Flatten([g \in 1..Len(Unique([i \in 1..Len(candidates) |-> candidates[i].name_prefix])) |->
                         PairsIn(SelectSeq(candidates, LAMBDA c :
                             c.name_prefix =
                                 Unique([i \in 1..Len(candidates) |-> candidates[i].name_prefix])[g]))])),
        candidates, env)

\* candidates: the rows ORDER BY name_prefix
CallFindDuplicateNames(excluded_playlist_ids, candidates, env) ==
    /\ Range(candidates) = Candidates(db, excluded_playlist_ids)
    /\ Len(candidates) = Cardinality(Candidates(db, excluded_playlist_ids))
    /\ \A i, j \in 1..Len(candidates) :
          i < j => candidates[i].name_prefix <= candidates[j].name_prefix
    /\ last' = [op |-> "find_duplicate_names", excluded |-> excluded_playlist_ids,
                candidates |-> candidates, env |-> env,
                ret |-> FindDuplicateNames(candidates, env)]
    /\ UNCHANGED <<cache, db, api, hist, sqlite>>

\* Track(id).is_orphaned(), and what the database held for the track
CallIsOrphaned(id) ==
    /\ last' = [op |-> "is_orphaned", id |-> id, ret |-> TrackIsOrphaned(World, id),
                inDb |-> InDb("track", id),
                inPlaylists |-> \E r \in db.playlists_tracks : r[2] = id]
    /\ UNCHANGED <<cache, db, api, hist, sqlite>>

\* SpecDupes: three playlists sharing their tracks are synced to the
\* database, the API answering null for a track or not and the names of the
\* catalog changing, and the duplicate detector runs on what the database
\* holds
SpecDupes ==
    InitWith([p \in Playlists |-> IF p = "p1" THEN <<Item("t1", 1), Item("t2", 1)>>
                                  ELSE IF p = "p2" THEN <<Item("t2", 1), Item("t1", 1)>>
                                  ELSE <<Item("t1", 1)>>])
    /\ [][\/ \E p \in Playlists, env \in {NoFault, [NoFault EXCEPT !.nullTracks = {"t2"}]} :
                CallGetPlaylist(p, TRUE, TRUE, env)
          \/ \E excluded_playlist_ids \in SUBSET {"p2", "pd"} :
             \E results \in UNION {[1..n -> TracksWithPlaylists(db, excluded_playlist_ids)] :
                                      n \in 0..Cardinality(Tracks)} :
                CallFindDuplicateIds(excluded_playlist_ids, results)
          \/ ApiChange
          \/ \E a \in Artists : CallGetArtist(a, FALSE, TRUE)
          \/ \E t \in Tracks : CallIsOrphaned(t)
          \/ \E excluded_playlist_ids \in {{}, {"pd"}} :
             \E candidates \in UNION {[1..n -> Candidates(db, excluded_playlist_ids)] :
                                         n \in 0..Cardinality(Tracks)},
                env \in [matches : SUBSET {Tracks}, partial : SUBSET {Tracks},
                         false_positive : SUBSET {Tracks}] :
                CallFindDuplicateNames(excluded_playlist_ids, candidates, env)]_vars

(***************************************************************************)
(* sqlite.py: the schema migration and the connection of the module.  A    *)
(* database is [has_tracks, columns, tracks, playlists_tracks]: whether    *)
(* the tracks table exists, which lifecycle columns it has, and per track  *)
(* id the values of created_at and last_seen_at (0 is NULL).               *)
(***************************************************************************)
\* UPDATE tracks SET last_seen_at = CASE ... END WHERE last_seen_at IS NULL:
\* the date of the day for a track that is in a playlist, else the
\* MAX(added_at) of its playlists_tracks rows, NULL when it has none
BackfillLastSeenAt(d, t, today) ==
    IF d.tracks[t].last_seen_at # 0 THEN d.tracks[t].last_seen_at
    ELSE IF \E r \in d.playlists_tracks : r[2] = t THEN today
    ELSE IF {r \in d.playlists_tracks : r[2] = t} = {} THEN 0
    ELSE CHOOSE m \in {r[3] : r \in {x \in d.playlists_tracks : x[2] = t}} :
            \A r \in {x \in d.playlists_tracks : x[2] = t} : m >= r[3]

\* UPDATE tracks SET created_at = COALESCE(MIN(added_at), last_seen_at,
\* date('now')) WHERE created_at IS NULL, on the row the first UPDATE left
\* with last_seen_at
BackfillRow(d, t, today, last_seen_at) ==
    [created_at |->
        IF d.tracks[t].created_at # 0 THEN d.tracks[t].created_at
        ELSE IF \E r \in d.playlists_tracks : r[2] = t
        THEN CHOOSE m \in {r[3] : r \in {x \in d.playlists_tracks : x[2] = t}} :
                \A r \in {x \in d.playlists_tracks : x[2] = t} : m <= r[3]
        ELSE IF last_seen_at # 0 THEN last_seen_at
        ELSE today,
     last_seen_at |-> last_seen_at]

\* a migration that adds the columns and fills every row, whatever is there
MigrateTracksAgain(d, today) ==
    [d EXCEPT !.columns = {"created_at", "last_seen_at"},
              !.tracks = [t \in DOMAIN d.tracks |->
                             [created_at |-> today, last_seen_at |-> today]]]

\* migrate_database_schema, the statements run on a database that has a
\* tracks table: nothing when SELECT created_at succeeds, else the two
\* ALTER TABLE (a duplicate column is ignored) and the two UPDATE
MigrateTracks(d, today) ==
    IF "created_at" \in d.columns THEN d
    ELSE [d EXCEPT !.columns = {"created_at", "last_seen_at"},
                   !.tracks = [t \in DOMAIN d.tracks |->
                                  BackfillRow(d, t, today, BackfillLastSeenAt(d, t, today))]]

\* migrate_database_schema on s = [sqlite, db, peak].  It connects on its
\* own (peak: the most connections open at once during the call).  Without
\* a tracks table every statement raises and the except branch is taken,
\* which does not close the connection: it is closed when the object is
\* collected, at the return (collected) or later.
MigrateDatabaseSchema(s, database, collected) ==
    IF database \in s.sqlite.migrated_databases THEN s
    ELSE IF ~s.db[database].has_tracks
    THEN [s EXCEPT !.sqlite.migrated_databases = @ \cup {database},
                   !.sqlite.open = IF collected THEN @
                                   ELSE @ \cup {[database |-> database,
                                                 by |-> "migrate_database_schema"]},
                   !.peak = IF Cardinality(s.sqlite.open) + 1 > @
                            THEN Cardinality(s.sqlite.open) + 1 ELSE @]
    ELSE [s EXCEPT !.sqlite.migrated_databases = @ \cup {database},
                   !.db[database] = MigrateTracks(@, s.sqlite.today),
                   !.peak = IF Cardinality(s.sqlite.open) + 1 > @
                            THEN Cardinality(s.sqlite.open) + 1 ELSE @]

\* the connection is kept whatever database it is connected to
ConnectedOnce(s, database) ==
    IF s.sqlite.db_connection = "None"
    THEN [s EXCEPT !.sqlite.open = @ \cup {[database |-> database, by |-> "get_db_connection"]},
                   !.sqlite.db_connection = database,
                   !.sqlite.current_database = database]
    ELSE s

\* get_db_connection after the migration: the connection (named by the
\* database it is connected to) is replaced when the database changed
Connected(s, database) ==
    IF s.sqlite.db_connection = "None" \/ s.sqlite.current_database # database
    THEN [s EXCEPT !.sqlite.open =
                       (@ \ {[database |-> s.sqlite.db_connection, by |-> "get_db_connection"]})
                           \cup {[database |-> database, by |-> "get_db_connection"]},
                   !.sqlite.db_connection = database,
                   !.sqlite.current_database = database]
    ELSE s

\* a call of the module: query_db / select_db / query_db_select (the
\* statement runs on the connection get_db_connection returned: ran_on) or
\* migrate_database_schema, called on its own
SqliteCalled(op, database, g) ==
    /\ sqlite' = g.sqlite
    /\ db' = g.db
    /\ last' = [op |-> op, database |-> database, ran_on |-> g.sqlite.db_connection,
                previous |-> sqlite.db_connection, peak |-> g.peak]
    /\ hist' = [migrated |-> hist.migrated \cup {database}]
    /\ UNCHANGED <<cache, api>>

CloseDbConnection ==
    /\ sqlite.db_connection # "None"
    /\ sqlite' = [sqlite EXCEPT
                    !.open = @ \ {[database |-> sqlite.db_connection, by |-> "get_db_connection"]},
                    !.db_connection = "None", !.current_database = "None"]
    /\ last' = [op |-> "close_db_connection"]
    /\ UNCHANGED <<cache, db, api, hist>>

\* the process ends (atexit: close_db_connection) and another one starts,
\* the same day or a later one
NewProcess(today) ==
    /\ today >= sqlite.today
    /\ sqlite' = FreshProcess(today)
    /\ last' = [op |-> "exit"]
    /\ UNCHANGED <<cache, db, api, hist>>

\* SpecSqlite: db1 has a tracks table, with or without lifecycle columns,
\* t1 in two playlists and t2 in none; db2 has no tracks table
SpecSqlite ==
    /\ \E columns \in {{}, {"last_seen_at"}, {"created_at", "last_seen_at"}} :
          /\ db = [d \in {"db1", "db2"} |->
                  IF d = "db1"
                  THEN [has_tracks |-> TRUE, columns |-> columns,
                        tracks |-> [t \in Tracks |->
                                       [created_at |-> IF "created_at" \in columns THEN 1 ELSE 0,
                                        last_seen_at |-> IF "created_at" \in columns THEN 1 ELSE 0]],
                        playlists_tracks |-> {<<"p1", "t1", 1>>, <<"p2", "t1", MaxDate>>}]
                  ELSE [has_tracks |-> FALSE, columns |-> {}, tracks |-> EmptyMap,
                        playlists_tracks |-> {}]]
          /\ cache = EmptyMap /\ api = [gen |-> 1]
          /\ last = [op |-> "init"] /\ hist = [migrated |-> {}]
          /\ sqlite = FreshProcess(1)
    /\ [][\/ \E database \in DOMAIN db, collected \in BOOLEAN :
                SqliteCalled("query", database,
                             Connected(MigrateDatabaseSchema(
                                           [sqlite |-> sqlite, db |-> db,
                                            peak |-> Cardinality(sqlite.open)],
                                           database, collected),
                                       database))
          \/ \E database \in DOMAIN db, collected \in BOOLEAN :
                SqliteCalled("migrate_database_schema", database,
                             MigrateDatabaseSchema([sqlite |-> sqlite, db |-> db,
                                                    peak |-> Cardinality(sqlite.open)],
                                                   database, collected))
          \/ CloseDbConnection
          \/ \E today \in 1..MaxDate : NewProcess(today)]_vars

(***************************************************************************)
(* The lifecycle columns of tracks (track.py).  TrackSyncToDb above has    *)
(* the name of the row and the rows of albums_tracks and tracks_artists;   *)
(* here a database is the record of the sqlite section, a row of tracks is *)
(* [created_at, last_seen_at] with 0 for NULL, and a Track object is       *)
(* [id, has_created_at, created_at]: whether the attribute created_at is   *)
(* set, and its value (0 for None).  The date of the day is sqlite.today.  *)
(***************************************************************************)
\* update_from_db: a row of tracks sets the attributes from its columns
\* (a NULL column gives None); without a row the object is left as it is
LifecycleFromDb(d, o) ==
    IF o.id \in DOMAIN d.tracks
    THEN [o EXCEPT !.has_created_at = TRUE, !.created_at = d.tracks[o.id].created_at]
    ELSE o

\* update_from_api: created_at is set to the date of the day only when the
\* attribute is missing or None
LifecycleFromApi(o, today) ==
    IF ~o.has_created_at \/ o.created_at = 0
    THEN [o EXCEPT !.has_created_at = TRUE, !.created_at = today]
    ELSE o

\* a sync_to_db that writes the created_at of the object whatever the row has
SyncOverwrites(d, o, today) ==
    [d EXCEPT !.tracks = Put(@, o.id, [created_at |-> IF o.has_created_at THEN o.created_at
                                                      ELSE today,
                                       last_seen_at |-> today])]

\* sync_to_db, the statement on tracks.  With lifecycle columns: INSERT OR
\* REPLACE with COALESCE((SELECT created_at ...), created) and the date of
\* the day as last_seen_at, where created is the attribute of the object,
\* the date of the day when the attribute is missing, the text 'None' (-1)
\* when it is None.  Without them: INSERT OR IGNORE of id, name, updated_at.
SyncLifecycle(d, o, today) ==
    IF "created_at" \in d.columns
    THEN [d EXCEPT !.tracks =
             Put(@, o.id,
                 [created_at |->
                      IF o.id \in DOMAIN d.tracks /\ d.tracks[o.id].created_at # 0
                      THEN d.tracks[o.id].created_at
                      ELSE IF ~o.has_created_at THEN today
                      ELSE IF o.created_at = 0 THEN -1
                      ELSE o.created_at,
                  last_seen_at |-> today])]
    ELSE IF o.id \in DOMAIN d.tracks THEN d
    ELSE [d EXCEPT !.tracks = Put(@, o.id, [created_at |-> 0, last_seen_at |-> 0])]

\* Track.get_track on c (the cached tracks), d0 (the database) and d (the
\* database after the migration that the first query of the call runs):
\* [cache, db, synced].  A cache hit returns before any query.
GetTrackLifecycle(c, d0, d, id, refresh, sync_to_db, today) ==
    IF id \in DOMAIN c /\ ~refresh
    THEN [cache |-> c, db |-> d0, synced |-> FALSE]
    ELSE IF id \in DOMAIN d.tracks /\ ~refresh
    THEN [cache |-> c, db |-> d, synced |-> FALSE]
    ELSE [cache |-> Put(c, id, LifecycleFromApi(
                                   LifecycleFromDb(d, [id |-> id, has_created_at |-> FALSE,
                                                       created_at |-> 0]), today)),
          db |-> IF sync_to_db
                 THEN SyncLifecycle(d, LifecycleFromApi(
                                           LifecycleFromDb(d, [id |-> id,
                                                               has_created_at |-> FALSE,
                                                               created_at |-> 0]), today),
                                    today)
                 ELSE d,
          synced |-> sync_to_db]

\* Playlist.sync_to_db and discover_from_playlists call sync_to_db on the
\* objects Track.get_tracks returned: the cached object, else the object
\* update_from_db filled, else a new object made from the API answer, which
\* has no attribute created_at and is cached.  discover_from_playlists
\* syncs a track only when update_from_db finds no row for it.
GetTracksLifecycle(c, d, id, only_new, today) ==
    IF only_new /\ id \in DOMAIN d.tracks
    THEN [cache |-> c, db |-> d, synced |-> FALSE]
    ELSE IF id \in DOMAIN c
    THEN [cache |-> c, db |-> SyncLifecycle(d, c[id], today), synced |-> TRUE]
    ELSE IF id \in DOMAIN d.tracks
    THEN [cache |-> c,
          db |-> SyncLifecycle(d, LifecycleFromDb(d, [id |-> id, has_created_at |-> FALSE,
                                                      created_at |-> 0]), today),
          synced |-> TRUE]
    ELSE [cache |-> Put(c, id, [id |-> id, has_created_at |-> FALSE, created_at |-> 0]),
          db |-> SyncLifecycle(d, [id |-> id, has_created_at |-> FALSE, created_at |-> 0],
                               today),
          synced |-> TRUE]

\* a call that may sync the track id, and what it leaves to look at
LifecycleCalled(op, id, g) ==
    /\ cache' = [cache EXCEPT !.track = g.cache]
    /\ db' = g.db
    /\ last' = [op |-> op, id |-> id, synced |-> g.synced, today |-> sqlite.today,
                existed |-> id \in DOMAIN db.tracks]
    /\ UNCHANGED <<api, hist, sqlite>>

\* SpecLifecycle: a database without the lifecycle columns (t1 in a
\* playlist, t2 in none) or with them (no row yet), tracks fetched and
\* synced over the days, cache files that come and go
SpecLifecycle ==
    /\ \E columns \in {{}, {"created_at", "last_seen_at"}} :
          /\ db = [has_tracks |-> TRUE, columns |-> columns,
                   tracks |-> IF columns = {}
                              THEN [t \in Tracks |-> [created_at |-> 0, last_seen_at |-> 0]]
                              ELSE EmptyMap,
                   playlists_tracks |-> {<<"p1", "t1", 1>>}]
          /\ cache = [track |-> EmptyMap] /\ api = [gen |-> 1]
          /\ last = [op |-> "init"] /\ hist = [migrated |-> {}]
          /\ sqlite = FreshProcess(1)
    /\ [][\/ \E id \in Tracks, refresh \in BOOLEAN, sync_to_db \in BOOLEAN :
                LifecycleCalled("get_track", id,
                                GetTrackLifecycle(cache.track, db,
                                                  MigrateTracks(db, sqlite.today),
                                                  id, refresh, sync_to_db, sqlite.today))
          \/ \E id \in Tracks, only_new \in BOOLEAN :
                LifecycleCalled("sync_to_db", id,
                                GetTracksLifecycle(cache.track, MigrateTracks(db, sqlite.today),
                                                   id, only_new, sqlite.today))
          \/ \E t \in DOMAIN cache.track : CacheEvict("track", t)
          \/ \E today \in 1..MaxDate : NewProcess(today)]_vars

(***************************************************************************)
(* lastfm.py: User.get_recent_tracks_scrobbles.  A recent track is the     *)
(* pair <<artist, title>> of its names; a name is [head, tail], the first  *)
(* 50 characters and the rest, since str(track) prints the heads only.     *)
(* scrobbles[key] is the list get_track_scrobbles answers for the pair,    *)
(* each scrobble given by its age in days.                                 *)
(***************************************************************************)
MaxRecent == 3      \* most recent tracks in an answer of get_recent_tracks

PREDEFINED_PERIODS == {7, 30, 90, 180, 365}

\* the loop without seen_tracks: every recent track is fetched and kept
RecentTracksNotDeduplicated(recent_tracks, scrobbles, scrobbles_minimum, period) ==
    Fold(LAMBDA r, key :
             [r EXCEPT !.calls = Append(@, key),
                       !.lines = IF Len(scrobbles[key]) >= scrobbles_minimum
                                 THEN Append(@, [str |-> <<key[1].head, key[2].head>>,
                                                 period_scrobbles |->
                                                     Cardinality({i \in DOMAIN scrobbles[key] :
                                                                    scrobbles[key][i] < period}),
                                                 total_scrobbles |-> Len(scrobbles[key]),
                                                 url |-> key])
                                 ELSE @],
         [raised |-> FALSE, seen_tracks |-> {}, calls |-> <<>>, lines |-> <<>>],
         recent_tracks)

\* get_recent_tracks_scrobbles, iterated to its end: [raised, seen_tracks,
\* calls, lines], calls being the get_track_scrobbles requests in order and
\* a line "{track} - {period_scrobbles} - {total_scrobbles} - {url}" being
\* the record of its four parts.  The url is the library url of the track,
\* which names the pair in full.
RecentTracksScrobbles(recent_tracks, scrobbles, scrobbles_minimum, period) ==
    IF period \notin PREDEFINED_PERIODS
    THEN [raised |-> TRUE, seen_tracks |-> {}, calls |-> <<>>, lines |-> <<>>]
    ELSE Fold(LAMBDA r, key :
                  IF key \in r.seen_tracks THEN r
                  ELSE [r EXCEPT
                          !.seen_tracks = @ \cup {key},
                          !.calls = Append(@, key),
                          !.lines = IF Len(scrobbles[key]) >= scrobbles_minimum
                                    THEN Append(@, [str |-> <<key[1].head, key[2].head>>,
                                                    period_scrobbles |->
                                                        Cardinality({i \in DOMAIN scrobbles[key] :
                                                                       scrobbles[key][i] < period}),
                                                    total_scrobbles |-> Len(scrobbles[key]),
                                                    url |-> key])
                                    ELSE @],
              [raised |-> FALSE, seen_tracks |-> {}, calls |-> <<>>, lines |-> <<>>],
              recent_tracks)

\* SpecLastfm: a call on an answer of up to MaxRecent recent tracks among
\* three pairs (two of them print alike), with 0 to 2 scrobbles each,
\* recent or old, a minimum of 0 to 2, and a period that is predefined or not
SpecLastfm ==
    /\ \E n \in 0..MaxRecent :
          \E recent_tracks \in
                 [1..n -> {<<[head |-> "a1", tail |-> ""], [head |-> "T", tail |-> ""]>>,
                           <<[head |-> "a2", tail |-> ""], [head |-> "T", tail |-> ""]>>,
                           <<[head |-> "a1", tail |-> ""], [head |-> "T", tail |-> "x"]>>}],
             scrobbles_minimum \in 0..2, period \in {8, 90} :
             \E scrobbles \in [Range(recent_tracks) -> {<<>>, <<1>>, <<1, 100>>}] :
                /\ last = [op |-> "call", recent_tracks |-> recent_tracks,
                           scrobbles |-> scrobbles, scrobbles_minimum |-> scrobbles_minimum,
                           period |-> period]
                /\ cache = EmptyMap /\ db = EmptyMap /\ api = [gen |-> 1]
                /\ hist = [migrated |-> {}] /\ sqlite = FreshProcess(1)
    /\ [][/\ last.op = "call"
          /\ last' = [op |-> "get_recent_tracks_scrobbles",
                      recent_tracks |-> last.recent_tracks, scrobbles |-> last.scrobbles,
                      scrobbles_minimum |-> last.scrobbles_minimum, period |-> last.period,
                      ret |-> RecentTracksScrobbles(last.recent_tracks, last.scrobbles,
                                                    last.scrobbles_minimum, last.period)]
          /\ UNCHANGED <<cache, db, api, hist, sqlite>>]_vars

(***************************************************************************)
(* Properties.                                                             *)
(***************************************************************************)

\* C1: a getter called with a client and refresh=False consults the object
\* cache, then the database, then the API, in that order: the database only
\* after a cache miss, the API only after a miss in both, and the API is
\* called for the requested entity only if the entity was in neither the
\* cache nor the database when the call began.
C1_ReadThrough ==
    (last.op = "get" /\ ~last.refresh) =>
        /\ \E n \in 1..3 : last.tiers = SubSeq(<<"cache", "db", "api">>, 1, n)
        /\ (Len(last.tiers) >= 2) <=> ~last.inCache
        /\ (Len(last.tiers) = 3) <=> (~last.inCache /\ ~last.inDb)
        /\ (<<last.kind, last.id>> \in Range(last.calls)) => (~last.inCache /\ ~last.inDb)

\* a track that is in the database and not in the cache is returned from
\* the database, with no request for it
C1_Witness ==
    /\ last.op = "get" /\ ~last.refresh /\ last.kind = "track"
    /\ ~last.inCache /\ last.inDb
    /\ last.tiers = <<"cache", "db">>
    /\ <<"track", last.id>> \notin Range(last.calls)

\* C2: a getter called with a client and refresh=True requests the entity
\* from the API even when it is in the cache or the database, returns the
\* API's data, and overwrites the cache entry with what it returns; a call
\* without refresh that then finds the entity in the cache returns the same
\* object.
C2_Refresh ==
    /\ [](last.op = "get" /\ last.refresh =>
            /\ <<last.kind, last.id>> \in Range(last.calls)
            /\ last.ret.name = last.gen
            /\ last.cached = <<last.ret>>)
    /\ [][(/\ last.op = "get" /\ last.refresh
           /\ last'.op = "get" /\ ~last'.refresh
           /\ last'.kind = last.kind /\ last'.id = last.id
           /\ last'.inCache)
          => last'.ret = last.ret]_vars

\* a refresh of an entity that was in the cache and in the database with
\* older data than the API's
C2_Witness ==
    /\ last.op = "get" /\ last.refresh
    /\ last.inCache /\ last.inDb
    /\ last.gen > 1
    /\ last.ret.name = last.gen
    /\ <<last.kind, last.id>> \in Range(last.calls)

\* C3: after Playlist.sync_to_db the playlists_tracks rows of the playlist
\* are one row per distinct track id of raw_tracks, with the added_at of the
\* id's first occurrence; no other row of the playlist is left.
C3_PlaylistRows ==
    (last.op = "get" /\ last.kind = "playlist" /\ last.synced # <<>>) =>
        PlaylistRows(last.id) =
            {<<last.id, last.synced[1].raw_tracks[i][1], last.synced[1].raw_tracks[i][2]>> :
                i \in {k \in DOMAIN last.synced[1].raw_tracks :
                         \A j \in 1..(k - 1) :
                            last.synced[1].raw_tracks[j][1] # last.synced[1].raw_tracks[k][1]}}

\* a sync of a playlist that holds one track twice, added at two dates,
\* and that has lost a track it had at the sync before
C3_Witness ==
    /\ last.op = "get" /\ last.kind = "playlist" /\ last.synced # <<>>
    /\ \E i, j \in DOMAIN last.synced[1].raw_tracks :
          /\ i < j
          /\ last.synced[1].raw_tracks[i][1] = last.synced[1].raw_tracks[j][1]
          /\ last.synced[1].raw_tracks[i][2] # last.synced[1].raw_tracks[j][2]
    /\ \E t \in last.had : t \notin Range(Ids(last.synced[1].raw_tracks))

\* C4: after the operations that write tracks to the database, every
\* tracks_artists row has its tracks row and its artists row, and every
\* albums_tracks row has its albums row and its tracks row.
C4_NoOrphanedRows ==
    /\ \A r \in db.tracks_artists :
          r[1] \in DOMAIN db.tracks /\ r[2] \in DOMAIN db.artists
    /\ \A r \in db.albums_tracks :
          r[1] \in DOMAIN db.albums /\ r[2] \in DOMAIN db.tracks

\* C5: every id with a row in tracks, albums or artists before
\* update_playlists has one after it, with and without playlists_patterns.
C5_KeepsCatalog ==
    last.op = "update_playlists" =>
        /\ last.before.tracks \subseteq DOMAIN db.tracks
        /\ last.before.albums \subseteq DOMAIN db.albums
        /\ last.before.artists \subseteq DOMAIN db.artists

\* an update of all the playlists that deleted the rows of a playlist of
\* another user and fetched nothing back for it, with tracks, albums and
\* artists in the database
C5_Witness ==
    /\ last.op = "update_playlists" /\ last.patterns = <<>>
    /\ "p2" \in last.before.playlists /\ "p2" \notin DOMAIN db.playlists
    /\ last.before.tracks # {} /\ last.before.albums # {} /\ last.before.artists # {}

\* C6: update_playlists requests no playlist of excluded_playlists from the
\* API and syncs none to the database, with and without playlists_patterns.
C6_ExcludedUntouched ==
    last.op = "update_playlists" =>
        \A p \in last.excluded :
            /\ <<"playlist", p>> \notin Range(last.calls)
            /\ \A i \in DOMAIN last.synced : last.synced[i].id # p

\* C7: a run of discover_from_playlists adds no track that an earlier run
\* added.
C7_NoReAdd ==
    last.op = "discover" => Range(last.added) \cap last.addedBefore = {}

\* a run that found, in a source, a track an earlier run added and that is
\* now in no playlist of the database, and did not take it
C7_Witness ==
    /\ last.op = "discover"
    /\ \E i \in DOMAIN last.seen :
          /\ last.seen[i].id \in last.addedBefore
          /\ last.seen[i].inDb /\ ~last.seen[i].inPlaylists
          /\ ~last.seen[i].taken
          /\ last.seen[i].id \notin Range(last.added)

\* C8: a run takes a track of a source for the discover playlist if the
\* track is not in the database or is in the database and in some playlist;
\* it skips the track only if it is orphaned (in the database, in no
\* playlist).
C8_SkipsOnlyOrphaned ==
    last.op = "discover" =>
        \A i \in DOMAIN last.seen :
            last.seen[i].taken <=> ~(last.seen[i].inDb /\ ~last.seen[i].inPlaylists)

\* C9: a track that a run found new and that was not added to the discover
\* playlist is still new to the next run (no step of the program removes a
\* tracks row, so a track that is not new will not be added by any run).
C9_PendingStillNew ==
    \A t \in hist.pending : Verdict(World, t) = "new"

\* C10: a run adds no track that was in the discover playlist when the run
\* began.
C10_NotAlreadyThere ==
    last.op = "discover" => Range(last.added) \cap last.inDiscoverBefore = {}

\* C11: a call of a getter with sync_to_db=False changes no table of the
\* database.
C11_NoDbWrite ==
    [][(last'.op = "get" /\ ~last'.sync /\ last' # last) => db' = db]_vars

\* C12: the tracks Track.get_tracks returns are in the order of the
\* requested ids: the returned ids are the requested ids without those that
\* were not returned (here for the call add_tracks_from_file_batch makes).
C12_RequestOrder ==
    last.op = "add_tracks_from_file_batch" =>
        last.ret = Keep(last.ids, Range(last.ret))

\* C13: Track.get_tracks calls the batch tracks endpoint ceil(m / batch_size)
\* times, m being the number of requested ids that were in neither the cache
\* nor the database (all of them with refresh); no call carries more than
\* batch_size ids, the calls put end to end are the missing ids in request
\* order, and with m = 0 there is no call.
C13_Batching ==
    last.op = "get_tracks" =>
        /\ Len(SelectSeq(last.calls, LAMBDA c : c[1] = "tracks"))
             = (Len(last.missing) + last.batch_size - 1) \div last.batch_size
        /\ \A i \in DOMAIN last.calls :
              last.calls[i][1] = "tracks" => Len(last.calls[i][2]) <= last.batch_size
        /\ Flatten([i \in 1..Len(SelectSeq(last.calls, LAMBDA c : c[1] = "tracks")) |->
                      SelectSeq(last.calls, LAMBDA c : c[1] = "tracks")[i][2]])
             = last.missing
        /\ last.missing = <<>> => last.calls = <<>>

\* a call with three missing ids and batches of two: a full batch and a
\* partial one
C13_Witness ==
    /\ last.op = "get_tracks"
    /\ Len(last.missing) = 3 /\ last.batch_size = 2
    /\ Len(SelectSeq(last.calls, LAMBDA c : c[1] = "tracks")) = 2

\* C14: after Playlist.update_from_api, raw_tracks holds, in playlist order,
\* one (track id, added_at) pair for every item of the playlist whose track
\* is not null, whatever the number of pages, the track id being
\* linked_from.id for a relinked item and the item's own id otherwise.
C14_RawTracks ==
    [][(last' # last /\ last'.op = "get" /\ last'.kind = "playlist"
            /\ Len(last'.tiers) = 3) =>
          LET kept == SelectSeq(api.items[last'.id], LAMBDA it : it.track # "None")
          IN  /\ Len(last'.ret.raw_tracks) = Len(kept)
              /\ \A i \in 1..Len(kept) :
                    /\ last'.ret.raw_tracks[i][2] = kept[i].added_at
                    /\ last'.ret.raw_tracks[i][1] =
                          IF kept[i].linked_from = "None" THEN kept[i].track
                          ELSE kept[i].linked_from]_vars

\* a playlist of two pages, with a null track and a relinked one, was read
C14_Witness ==
    /\ last.op = "get" /\ last.kind = "playlist"
    /\ <<"next", "p1">> \in Range(last.calls)
    /\ api.items["p1"] = <<[track |-> "None", linked_from |-> "None", added_at |-> 1],
                           [track |-> "t2", linked_from |-> "t1", added_at |-> 1]>>
    /\ last.ret.raw_tracks = <<<<"t1", 1>>>>

\* C15 (as stated): Album.get_albums returns one album per occurrence of an
\* input id, in input order, leaving out the ids the API answered null for,
\* and requests from the API only ids that were in neither the cache nor
\* the database, none of them twice.
C15_GetAlbums ==
    last.op = "get_albums" =>
        LET asked == Flatten([i \in 1..Len(SelectSeq(last.calls, LAMBDA c : c[1] = "albums")) |->
                                 SelectSeq(last.calls, LAMBDA c : c[1] = "albums")[i][2]])
        IN  /\ last.ret = Drop(last.ids, Range(asked) \cap last.env.nullAlbums)
            /\ Range(asked) \subseteq Range(last.absent)
            /\ \A i, j \in 1..Len(asked) : asked[i] = asked[j] => i = j

\* C15 (amended): the same, the ids requested from the API being exactly the
\* distinct ids in neither the cache nor the database when refresh is False
\* and all the distinct input ids when refresh is True.
C15_GetAlbumsRefresh ==
    last.op = "get_albums" =>
        LET asked == Flatten([i \in 1..Len(SelectSeq(last.calls, LAMBDA c : c[1] = "albums")) |->
                                 SelectSeq(last.calls, LAMBDA c : c[1] = "albums")[i][2]])
        IN  /\ last.ret = Drop(last.ids, Range(asked) \cap last.env.nullAlbums)
            /\ Range(asked) = Range(last.missing)
            /\ \A i, j \in 1..Len(asked) : asked[i] = asked[j] => i = j

\* a1, listed twice, was in the cache or the database; a2 was not and the
\* API answered null for it: a1 is returned twice, a2 alone was requested
C15_Witness ==
    /\ last.op = "get_albums" /\ ~last.refresh
    /\ last.ids = <<"a1", "a2", "a1">> /\ last.absent = <<"a2">>
    /\ last.env.nullAlbums = {"a2"}
    /\ last.ret = <<"a1", "a1">>
    /\ SelectSeq(last.calls, LAMBDA c : c[1] = "albums") = <<<<"albums", <<"a2">>>>>>

\* C16: find_duplicate_ids returns exactly one entry for each track that is
\* in at least two playlists not listed in excluded_playlist_ids, its count
\* being the number of such playlists, no entry for any other track, and
\* the entries by count descending.
C16_DuplicateIds ==
    last.op = "find_duplicate_ids" =>
        /\ \A t \in Tracks :
              LET in == {r[1] : r \in {x \in last.rows :
                                          x[2] = t /\ x[1] \notin last.excluded}}
                  entries == {i \in 1..Len(last.ret) : last.ret[i].track = t}
              IN  IF Cardinality(in) >= 2
                  THEN /\ Cardinality(entries) = 1
                       /\ \A i \in entries : last.ret[i].count = Cardinality(in)
                  ELSE entries = {}
        /\ \A i, j \in 1..Len(last.ret) : i < j => last.ret[i].count >= last.ret[j].count

\* C17: find_duplicate_names reports an unordered pair of distinct track ids
\* at most once over its two passes, and never a track paired with itself.
C17_PairsOnce ==
    last.op = "find_duplicate_names" =>
        /\ \A i \in 1..Len(last.ret) : last.ret[i].track1 # last.ret[i].track2
        /\ \A i, j \in 1..Len(last.ret) :
              {last.ret[i].track1, last.ret[i].track2} = {last.ret[j].track1, last.ret[j].track2}
                  => i = j

\* two tracks with different prefixes and artists of one name, whose names
\* match under both scorers, are reported by pass 2
C17_Witness ==
    /\ last.op = "find_duplicate_names"
    /\ Len(last.ret) = 1 /\ last.ret[1].pass = 2
    /\ Tracks \in last.env.matches /\ Tracks \in last.env.partial

\* C20: Track.is_orphaned returns True exactly when the track has a row in
\* tracks and no playlists_tracks row references it.
C20_IsOrphaned ==
    last.op = "is_orphaned" => (last.ret <=> (last.inDb /\ ~last.inPlaylists))

\* C18: once migrate_database_schema has run on a database, running it
\* again, in the same process or in a new one, the same day or another,
\* leaves the schema and the rows of the database as they are.
C18_Idempotent ==
    \A database \in hist.migrated, today \in 1..MaxDate, collected \in BOOLEAN :
        /\ MigrateDatabaseSchema([sqlite |-> [sqlite EXCEPT !.today = today], db |-> db,
                                  peak |-> 0], database, collected).db = db
        /\ MigrateDatabaseSchema([sqlite |-> FreshProcess(today), db |-> db,
                                  peak |-> 0], database, collected).db = db

\* db1 was migrated and its rows filled at date 1 (t2, in no playlist, has
\* no last_seen_at); the date is now another and the process a new one
C18_Witness ==
    /\ "db1" \in hist.migrated
    /\ db["db1"].columns = {"created_at", "last_seen_at"}
    /\ db["db1"].tracks["t1"].last_seen_at = 1
    /\ db["db1"].tracks["t2"] = [created_at |-> 1, last_seen_at |-> 0]
    /\ sqlite.today > 1 /\ sqlite.migrated_databases = {}

\* C19 (as stated): no more than one connection is open at any time, during
\* a call or between calls; a query runs on a connection to the database
\* it was given; after a query on another database than the one before,
\* the connection to the former database is closed.
C19_OneConnection ==
    /\ Cardinality(sqlite.open) <= 1
    /\ last.op = "query" =>
          /\ last.peak <= 1
          /\ last.ran_on = last.database
          /\ \A c \in sqlite.open : c.database = last.database

\* C19 (amended): of the connections get_db_connection opens no more than
\* one is open at any time, and it is the one the module holds; a query
\* runs on a connection to the database it was given; after a query on
\* another database than the one before, the held connection to the former
\* database is closed.  (migrate_database_schema opens a connection of its
\* own.)
C19_OneHeldConnection ==
    /\ {c \in sqlite.open : c.by = "get_db_connection"} =
          IF sqlite.db_connection = "None" THEN {}
          ELSE {[database |-> sqlite.db_connection, by |-> "get_db_connection"]}
    /\ sqlite.db_connection = sqlite.current_database
    /\ last.op = "query" =>
          /\ last.ran_on = last.database
          /\ \A c \in sqlite.open : c.by = "get_db_connection" => c.database = last.database

\* a query on db2 while the module held a connection to db1
C19_Witness ==
    /\ last.op = "query" /\ last.previous = "db1" /\ last.database = "db2"
    /\ sqlite.db_connection = "db2"
    /\ [database |-> "db1", by |-> "get_db_connection"] \notin sqlite.open

\* C23: after migrate_database_schema has migrated a database that has a
\* tracks table, every row of tracks has a last_seen_at and a created_at
\* that are not NULL, the rows of tracks that are in no playlist included.
C23_Backfilled ==
    \A database \in hist.migrated :
        db[database].has_tracks =>
            \A t \in DOMAIN db[database].tracks :
                /\ db[database].tracks[t].created_at # 0
                /\ db[database].tracks[t].last_seen_at # 0

\* C22: on a database with the lifecycle columns, no step changes (or
\* removes) a created_at of tracks that is not NULL, whatever Track objects
\* are synced and on whatever day, and a Track.sync_to_db call leaves the
\* row of its track with the date of the day as last_seen_at.
C22_CreatedAtKept ==
    /\ [][("created_at" \in db.columns /\ "created_at" \in db'.columns) =>
             \A t \in DOMAIN db.tracks :
                 db.tracks[t].created_at # 0 =>
                     /\ t \in DOMAIN db'.tracks
                     /\ db'.tracks[t].created_at = db.tracks[t].created_at]_vars
    /\ []((last.op \in {"get_track", "sync_to_db"} /\ last.synced) =>
             /\ "created_at" \in db.columns
             /\ last.id \in DOMAIN db.tracks
             /\ db.tracks[last.id].last_seen_at = last.today)

\* a row created on day 1 is synced on a later day from an object that has
\* no created_at of its own: created_at stays, last_seen_at is the later day
C22_Witness ==
    /\ last.op = "sync_to_db" /\ last.synced /\ last.existed /\ last.today > 1
    /\ last.id \in DOMAIN cache.track /\ ~cache.track[last.id].has_created_at
    /\ db.tracks[last.id] = [created_at |-> 1, last_seen_at |-> last.today]

\* C21: get_recent_tracks_scrobbles, called with a predefined period and
\* iterated to its end, yields lines for exactly the distinct (artist,
\* title) pairs of the recent tracks whose scrobble list has at least
\* scrobbles_minimum entries, one line per pair with that count as total,
\* and requests the scrobble list of each distinct pair exactly once and of
\* no other pair.
C21_Scrobbles ==
    (last.op = "get_recent_tracks_scrobbles" /\ ~last.ret.raised) =>
        /\ {last.ret.lines[i].url : i \in DOMAIN last.ret.lines} =
              {key \in Range(last.recent_tracks) :
                  Len(last.scrobbles[key]) >= last.scrobbles_minimum}
        /\ \A i, j \in DOMAIN last.ret.lines :
              last.ret.lines[i].url = last.ret.lines[j].url => i = j
        /\ \A i \in DOMAIN last.ret.lines :
              last.ret.lines[i].total_scrobbles = Len(last.scrobbles[last.ret.lines[i].url])
        /\ Range(last.ret.calls) = Range(last.recent_tracks)
        /\ \A i, j \in DOMAIN last.ret.calls : last.ret.calls[i] = last.ret.calls[j] => i = j

\* three recent tracks, the first played again as the third; the second
\* pair prints like the first and has fewer scrobbles than the minimum:
\* two requests, one line
C21_Witness ==
    /\ last.op = "get_recent_tracks_scrobbles" /\ ~last.ret.raised
    /\ Len(last.recent_tracks) = 3 /\ last.recent_tracks[1] = last.recent_tracks[3]
    /\ last.recent_tracks[1][2].tail # last.recent_tracks[2][2].tail
    /\ last.scrobbles_minimum = 2
    /\ Len(last.ret.calls) = 2 /\ Len(last.ret.lines) = 1
    /\ last.ret.lines[1].period_scrobbles = 1

====
